---- MODULE Spec2Model ----
(***************************************************************************)
(* Model of the websocket chat relay of src/backend/server.py.             *)
(*                                                                         *)
(* The server is one asyncio event loop.  A task runs without interruption *)
(* from one await that suspends to the next, so every action below is the  *)
(* code a task executes between two suspension points.  The tasks are one  *)
(* handle() per connection and one expire() per timed message.             *)
(*                                                                         *)
(* Text is modelled as sequences of one-character strings so that the      *)
(* prefix tests, strip(), split(" ", 1) and int() of the command parser    *)
(* are computed, not assumed.                                              *)
(***************************************************************************)
EXTENDS Integers, Sequences, FiniteSets, TLC

(***************************************************************************)
(* Bounds of the model.                                                    *)
(***************************************************************************)
\* number of connections that may ever be accepted
NumConns == 2
\* number of messages that may ever be appended (caps next_id)
MaxMsgs == 2

\* number of messages appended in the runs checked for liveness
LiveMsgs == 1

Conn == 1..NumConns
MsgId == 1..MaxMsgs

\* Python's None (no id, name or text of the program is empty)
None == <<>>
\* an Optional[int] that is not None
Some(n) == <<n>>

(***************************************************************************)
(* Text helpers: str.startswith, str.strip, str.split(" ", 1), int().      *)
(***************************************************************************)
Digits == {"0", "1", "2", "3", "4", "5", "6", "7", "8", "9"}

DigitVal(ch) ==
    CASE ch = "0" -> 0 [] ch = "1" -> 1 [] ch = "2" -> 2 [] ch = "3" -> 3
      [] ch = "4" -> 4 [] ch = "5" -> 5 [] ch = "6" -> 6 [] ch = "7" -> 7
      [] ch = "8" -> 8 [] ch = "9" -> 9

StartsWith(s, p) ==
    /\ Len(s) >= Len(p)
    /\ SubSeq(s, 1, Len(p)) = p

Drop(s, n) == SubSeq(s, n + 1, Len(s))

RECURSIVE LStrip(_)
LStrip(s) ==
    IF s # <<>> /\ Head(s) = " " THEN LStrip(Tail(s)) ELSE s

RECURSIVE RStrip(_)
RStrip(s) ==
    IF s # <<>> /\ s[Len(s)] = " " THEN RStrip(SubSeq(s, 1, Len(s) - 1)) ELSE s

Strip(s) == RStrip(LStrip(s))

\* index of the first space of s, 0 when there is none
FirstSpace(s) ==
    IF \E i \in 1..Len(s) : s[i] = " "
    THEN CHOOSE i \in 1..Len(s) : s[i] = " " /\ \A j \in 1..(i - 1) : s[j] # " "
    ELSE 0

\* (a split that always yields two parts, as str.partition would)
SplitOnce_pad(s) ==
    LET k == FirstSpace(s)
    IN  IF k = 0 THEN <<s, <<>>>> ELSE <<SubSeq(s, 1, k - 1), Drop(s, k)>>

\* s.split(" ", 1): one part when s holds no space, else the text before the
\* first space and everything after it
SplitOnce(s) ==
    LET k == FirstSpace(s)
    IN  IF k = 0 THEN <<s>> ELSE <<SubSeq(s, 1, k - 1), Drop(s, k)>>

\* the digits of s once an optional sign is taken off
Unsigned(s) ==
    IF s # <<>> /\ Head(s) \in {"+", "-"} THEN Tail(s) ELSE s

\* int(s) raises ValueError unless s is an optionally signed run of digits
IsInt(s) ==
    /\ Unsigned(s) # <<>>
    /\ \A i \in 1..Len(Unsigned(s)) : Unsigned(s)[i] \in Digits

RECURSIVE NatVal(_)
NatVal(s) ==
    IF s = <<>> THEN 0 ELSE 10 * NatVal(SubSeq(s, 1, Len(s) - 1)) + DigitVal(s[Len(s)])

ToInt(s) ==
    IF s # <<>> /\ Head(s) = "-" THEN 0 - NatVal(Unsigned(s)) ELSE NatVal(Unsigned(s))

(***************************************************************************)
(* The command prefixes tested by handle(), in the order of the code.      *)
(***************************************************************************)
P_delete == <<"/", "d", "e", "l", "e", "t", "e", " ">>
\* (the /reply prefix tested without its space)
P_reply_bare == <<"/", "r", "e", "p", "l", "y">>
P_reply == <<"/", "r", "e", "p", "l", "y", " ">>
P_temp == <<"/", "t", "e", "m", "p", " ">>
P_to == <<"/", "t", "o", " ">>
T_exit == <<"/", "e", "x", "i", "t">>
T_last == <<"l", "a", "s", "t">>

\* the /delete branch up to the choice of target_id
ParseDelete(msg) ==
    LET arg == Strip(Drop(msg, Len(P_delete)))
    IN  IF arg = T_last THEN [kind |-> "delete_last"]
        ELSE IF IsInt(arg) THEN [kind |-> "delete_id", id |-> ToInt(arg)]
        ELSE [kind |-> "drop"]

\* the /reply and /temp branches share their parse: <int> <text>
ParseNumText(msg, prefix, kind) ==
    LET parts == SplitOnce(Strip(Drop(msg, Len(prefix))))
    IN  IF Len(parts) # 2 THEN [kind |-> "drop"]
        ELSE IF ~IsInt(parts[1]) THEN [kind |-> "drop"]
        ELSE [kind |-> kind, num |-> ToInt(parts[1]), text |-> parts[2]]

ParseTo(msg) ==
    LET parts == SplitOnce(Strip(Drop(msg, Len(P_to))))
    IN  IF Len(parts) # 2 THEN [kind |-> "drop"]
        ELSE [kind |-> "to", target |-> parts[1], text |-> parts[2]]

\* the chain of tests of the read loop: what one inbound line is taken for
Parse(msg) ==
    IF StartsWith(msg, P_delete) THEN ParseDelete(msg)
    ELSE IF StartsWith(msg, P_reply) THEN ParseNumText(msg, P_reply, "reply")
    ELSE IF StartsWith(msg, P_temp) THEN ParseNumText(msg, P_temp, "temp")
    ELSE IF StartsWith(msg, P_to) THEN ParseTo(msg)
    ELSE IF Strip(msg) = T_exit THEN [kind |-> "exit"]
    ELSE [kind |-> "public", text |-> msg]

(***************************************************************************)
(* Identities.  handle() builds name = "User<nnn>" and id = name-<6 hex>;  *)
(* the random parts are taken distinct per connection.                     *)
(***************************************************************************)
Letters == <<"A", "B", "C", "D", "E", "F">>

NameOf(c) == <<"U", Letters[c]>>
ClientId(c) == NameOf(c) \o <<"-", "x">>
Identity(c) == [id |-> ClientId(c), name |-> NameOf(c)]
\* an id no connection is ever given
UnknownId == <<"U", "Z", "-", "x">>
\* clients_info.get(ws, {'id': None, 'name': None})
NoIdentity == [id |-> None, name |-> None]

(***************************************************************************)
(* State.                                                                  *)
(***************************************************************************)
VARIABLES
    clients,      \* the set `clients`, as the sequence list(clients) yields
    clients_info, \* connection -> identity
    id_to_ws,     \* client id -> connection
    messages,     \* the message store
    next_id,
    temp_tasks,   \* the keys of temp_tasks (the task of key m is expire task m)
    task,         \* expire task m: "none", "sleeping", "bcast", "done", "cancelled"
    transport,    \* connection: "none" (not accepted yet), "open", "closed"
    pc,           \* handle(ws): where the task of each connection is suspended
    local_mid,    \* the local `mid` of a handler suspended in the /temp branch
    stack,        \* task -> its nested broadcast() frames, innermost last
    sent,         \* history: connection -> event key -> number of send() calls
    step_sends,   \* history: the sends of the last step, as <<connection, event key>>
    init_snap,    \* history: connection -> ids of the messages of its init event
    posted,       \* history: every message appended, in order
    del_calls,    \* history: message id -> number of broadcast(delete) calls
    mispruned,    \* history: connections broadcast() pruned though their send went through
    missed,       \* history: connections broadcast() kept though their send failed
    last          \* history: the line the last step read, and who read it

vars == <<clients, clients_info, id_to_ws, messages, next_id, temp_tasks, task,
          transport, pc, local_mid, stack, sent, step_sends, init_snap, posted,
          del_calls, mispruned, missed, last>>

HTask(c) == <<"h", c>>
XTask(m) == <<"x", m>>
TaskIds == {HTask(c) : c \in Conn} \cup {XTask(m) : m \in MsgId}

\* the events counted per connection over the whole run
EvKeys == {"message", "delete"} \X MsgId
MsgEv(m) == <<"message", m>>
DelEv(m) == <<"delete", m>>
\* {"type": "clients", "clients": lst}
ClientsEv(lst) == <<"clients", lst>>
\* {"type": "init", "you": ..., "messages": ..., "clients": ...}
InitEv(you, msgs, lst) ==
    <<"init", [you |-> you, messages |-> msgs, clients |-> lst]>>

NoLine == [by |-> 0, line |-> <<>>]

Init ==
    /\ clients = <<>>
    /\ clients_info = <<>>
    /\ id_to_ws = <<>>
    /\ messages = <<>>
    /\ next_id = 1
    /\ temp_tasks = {}
    /\ task = [m \in MsgId |-> "none"]
    /\ transport = [c \in Conn |-> "none"]
    /\ pc = [c \in Conn |-> "new"]
    /\ local_mid = [c \in Conn |-> 0]
    /\ stack = [t \in TaskIds |-> <<>>]
    /\ sent = [c \in Conn |-> [k \in EvKeys |-> 0]]
    /\ step_sends = {}
    /\ init_snap = [c \in Conn |-> {}]
    /\ posted = <<>>
    /\ del_calls = [m \in MsgId |-> 0]
    /\ mispruned = {}
    /\ missed = {}
    /\ last = NoLine

(***************************************************************************)
(* Small helpers on sequences and functions.                               *)
(***************************************************************************)
Range(s) == {s[i] : i \in DOMAIN s}
Min(a, b) == IF a < b THEN a ELSE b

\* (a discard that removes nothing)
Without_keep(s, x) == s

\* s without every occurrence of x (set.discard, on the iteration order)
RECURSIVE Without(_, _)
Without(s, x) ==
    IF s = <<>> THEN <<>>
    ELSE IF Head(s) = x THEN Without(Tail(s), x)
    ELSE <<Head(s)>> \o Without(Tail(s), x)

\* s with x put at position k (set.add: the slot depends on the hash)
InsertAt(s, k, x) == SubSeq(s, 1, k - 1) \o <<x>> \o SubSeq(s, k, Len(s))

\* (a delete that always takes the first entry)
RemoveAt_head(s, i) == Tail(s)

\* s without its element at index i (del messages[i])
RemoveAt(s, i) == SubSeq(s, 1, i - 1) \o SubSeq(s, i + 1, Len(s))

\* dict.pop(k, None) and dict[k] = v
DictPop(f, k) == [x \in (DOMAIN f) \ {k} |-> f[x]]
DictPut(f, k, v) == [x \in (DOMAIN f) \cup {k} |-> IF x = k THEN v ELSE f[x]]
DictGet(f, k, default) == IF k \in DOMAIN f THEN f[k] ELSE default

Ids(msgs) == {msgs[i].id : i \in DOMAIN msgs}

\* (a search that falls back on the last entry when the id is absent)
FindIndex_orLast(msgs, target) ==
    IF \E i \in DOMAIN msgs : msgs[i].id = target
    THEN CHOOSE i \in DOMAIN msgs :
            msgs[i].id = target /\ \A j \in 1..(i - 1) : msgs[j].id # target
    ELSE Len(msgs)

\* enumerate(messages) up to the first entry whose id is target; 0 when none
FindIndex(msgs, target) ==
    IF \E i \in DOMAIN msgs : msgs[i].id = target
    THEN CHOOSE i \in DOMAIN msgs :
            msgs[i].id = target /\ \A j \in 1..(i - 1) : msgs[j].id # target
    ELSE 0

(***************************************************************************)
(* broadcast().  A task runs the code of broadcast() on a machine record   *)
(* m holding the globals it may change and its own stack of frames.  A     *)
(* frame holds the connections the coroutines were built for (tgt), the    *)
(* results of gather in the same order (res), whether gather is still      *)
(* awaited (wait), and what is left of zip(list(clients), results) (todo). *)
(***************************************************************************)
Machine(t) ==
    [clients |-> clients, info |-> clients_info, idws |-> id_to_ws,
     sent |-> sent, out |-> {}, mis |-> mispruned, missed |-> missed, stk |-> stack[t]]

\* c.send(data): raises when the transport of c is closed
SendFails(c) == transport[c] # "open"

\* one more send() of event key k to every connection of cs
CountSends(snt, cs, k) ==
    [c \in Conn |->
        [x \in EvKeys |->
            IF x = k
            THEN snt[c][x] + Cardinality({i \in DOMAIN cs : cs[i] = c})
            ELSE snt[c][x]]]

\* zip(list(clients), results): pairs by position, as long as the shorter
Zip(cs, rs) == [i \in 1..Min(Len(cs), Len(rs)) |-> <<cs[i], rs[i]>>]

Suspended(stk) == stk # <<>> /\ stk[Len(stk)].wait

\* (a broadcast that sends to the first connection of list(clients) only)
Enter_first(m, k) ==
    IF m.clients = <<>> THEN m
    ELSE [m EXCEPT
            !.sent = CountSends(m.sent, <<Head(m.clients)>>, k),
            !.out = @ \cup {<<Head(m.clients), k>>},
            !.stk = Append(m.stk,
                        [tgt |-> <<Head(m.clients)>>,
                         res |-> <<SendFails(Head(m.clients))>>,
                         wait |-> TRUE,
                         todo |-> <<>>])]

\* broadcast(payload) from its first line to the await of gather: returns at
\* once when `clients` is empty, else sends to list(clients) and suspends
Enter(m, k) ==
    IF m.clients = <<>> THEN m
    ELSE [m EXCEPT
            !.sent = CountSends(m.sent, m.clients, k),
            !.out = @ \cup {<<c, k>> : c \in Range(m.clients)},
            !.stk = Append(m.stk,
                        [tgt |-> m.clients,
                         res |-> [i \in DOMAIN m.clients |-> SendFails(m.clients[i])],
                         wait |-> TRUE,
                         todo |-> <<>>])]

\* list(clients_info.values()): the identities in the order of insertion,
\* which is the order in which the connections were accepted
RECURSIVE ValuesFrom(_, _)
ValuesFrom(info, c) ==
    IF c > NumConns THEN <<>>
    ELSE (IF c \in DOMAIN info THEN <<info[c]>> ELSE <<>>) \o ValuesFrom(info, c + 1)

\* (the identities of every connection there may be, registered or not)
ValuesOf_all(info) == [c \in Conn |-> Identity(c)]

ValuesOf(info) == ValuesFrom(info, 1)

\* broadcast_clients(): the roster is built, then broadcast at once
BroadcastClients(m) == Enter(m, ClientsEv(ValuesOf(m.info)))

\* (a prune that leaves the id of the connection in id_to_ws)
Unregister_keepId(m, c) ==
    [m EXCEPT
        !.clients = Without(m.clients, c),
        !.info = DictPop(m.info, c)]

\* the registry without connection c (the prune of broadcast, and finally)
Unregister(m, c) ==
    [m EXCEPT
        !.clients = Without(m.clients, c),
        !.info = DictPop(m.info, c),
        !.idws = IF c \in DOMAIN m.info THEN DictPop(m.idws, m.info[c].id) ELSE m.idws]

\* the send to c of the broadcast of frame f raised
OwnSendFailed(f, c) == \E j \in DOMAIN f.tgt : f.tgt[j] = c /\ f.res[j]

\* history: c is pruned by frame f; was it the send to c that failed?
NotePrune(m, f, c) ==
    IF c \in Range(m.clients) /\ ~OwnSendFailed(f, c)
    THEN [m EXCEPT !.mis = @ \cup {c}]
    ELSE m

\* history: frame f returns; which failed connections did it leave registered?
NoteReturn(m, f) ==
    [m EXCEPT !.missed = @ \cup {c \in Range(m.clients) : OwnSendFailed(f, c)}]

\* the for loop of broadcast() and of the broadcasts that called it, run up
\* to the next gather that suspends or to the return of the outermost one.
\* (Loop hands LoopBody its argument as a value, so that it is computed once.)
RECURSIVE Loop(_)
LoopBody(m) ==
    IF m.stk = <<>> \/ Suspended(m.stk) THEN m
    ELSE LET n == Len(m.stk)
             top == m.stk[n]
         IN  IF top.todo = <<>>
             THEN Loop(NoteReturn([m EXCEPT !.stk = SubSeq(m.stk, 1, n - 1)], top))
             ELSE LET c == Head(top.todo)[1]
                      failed == Head(top.todo)[2]
                      m1 == [m EXCEPT !.stk[n].todo = Tail(top.todo)]
                      m2 == NotePrune(m1, top, c)
                  IN  IF ~failed THEN Loop(m1)
                      ELSE IF c \in DOMAIN m2.info
                           THEN Loop(BroadcastClients(Unregister(m2, c)))
                           ELSE Loop([m2 EXCEPT !.clients = Without(m2.clients, c)])

Loop(m0) == CHOOSE r \in {LoopBody(m) : m \in {m0}} : TRUE

\* gather returns: the results are zipped with list(clients) as it is now
Resume(m) ==
    LET n == Len(m.stk)
    IN  Loop([m EXCEPT !.stk[n].wait = FALSE,
                       !.stk[n].todo = Zip(m.clients, m.stk[n].res)])

\* the globals and the stack of task t after it ran to machine record m
Commit(t, m) ==
    /\ clients' = m.clients
    /\ clients_info' = m.info
    /\ id_to_ws' = m.idws
    /\ sent' = m.sent
    /\ step_sends' = m.out
    /\ mispruned' = m.mis
    /\ missed' = m.missed
    /\ stack' = [stack EXCEPT ![t] = m.stk]

(***************************************************************************)
(* The message store.                                                      *)
(***************************************************************************)
\* (a message that drops the reference it is given)
NewMessage_noRef(mid, text, reply_to, sender, to_id) ==
    [id |-> mid, text |-> text, reply_to |-> None,
     from_id |-> sender.id, from_name |-> sender.name, to_id |-> to_id]

\* the dict appended for a line; a timed message alone has the key
\* expires_at (kept as its ttl, the offset from the time of posting)
NewMessage(mid, text, reply_to, sender, to_id) ==
    [id |-> mid, text |-> text, reply_to |-> reply_to,
     from_id |-> sender.id, from_name |-> sender.name, to_id |-> to_id]

TimedMessage(mid, text, sender, ttl) ==
    [id |-> mid, text |-> text, reply_to |-> None,
     from_id |-> sender.id, from_name |-> sender.name, to_id |-> None,
     expires_at |-> ttl]

\* (next_id left as it is)
Bump_stuck(n) == n

\* next_id += 1
Bump(n) == n + 1

\* (no task is created)
Spawn_never(tk, mid) == tk

\* asyncio.create_task(expire(mid, ttl)) and temp_tasks[mid] = task
Spawn(tk, mid) == [tk EXCEPT ![mid] = "sleeping"]

\* t.cancel() on the task popped from temp_tasks, when there is one
Cancel(tk, keys, mid) ==
    IF mid \in keys /\ tk[mid] \in {"sleeping", "bcast"}
    THEN [tk EXCEPT ![mid] = "cancelled"]
    ELSE tk

\* (expire() deleting and broadcasting without looking)
StillPresent_always(msgs, mid) == TRUE

\* the message of id mid is still in the store (the search of expire())
StillPresent(msgs, mid) == FindIndex(msgs, mid) # 0

\* (a direct message sent like a public one)
SendTo_all(cs, idws, target_cid, ws) == cs

\* the connections the /to branch sends to: the target when it is
\* registered, then the sender
SendTo(cs, idws, target_cid, ws) ==
    (IF target_cid \in DOMAIN idws /\ idws[target_cid] \in Range(cs)
     THEN <<idws[target_cid]>> ELSE <<>>) \o <<ws>>

(***************************************************************************)
(* handle(): what a handler does once the broadcast it awaits returned, or *)
(* where it stays suspended when it did not.                               *)
(***************************************************************************)
AfterBroadcast(c, m, cont, mid, keys, tk) ==
    IF Suspended(m.stk)
    THEN /\ pc' = [pc EXCEPT ![c] = cont]
         /\ local_mid' = [local_mid EXCEPT ![c] = mid]
         /\ temp_tasks' = keys
         /\ task' = tk
    ELSE /\ pc' = [pc EXCEPT ![c] = IF cont = "bcast_fin" THEN "done" ELSE "read"]
         /\ local_mid' = [local_mid EXCEPT ![c] = 0]
         /\ temp_tasks' = IF cont = "bcast_temp" THEN keys \cup {mid} ELSE keys
         /\ task' = IF cont = "bcast_temp" THEN Spawn(tk, mid) ELSE tk

\* the finally block: unregister, then broadcast_clients()
Finally(c) ==
    \E m \in {BroadcastClients(Unregister(Machine(HTask(c)), c))} :
        /\ Commit(HTask(c), m)
        /\ AfterBroadcast(c, m, "bcast_fin", 0, temp_tasks, task)

\* a connection is accepted: registration, then the init event.  `pos` is
\* the place the new connection takes in the iteration order of `clients`.
\* The peer is still there and the handler awaits the send of init.
Connect(c, pos) ==
    /\ pc[c] = "new"
    /\ \A d \in Conn : d < c => pc[d] # "new"
    /\ pos \in 1..(Len(clients) + 1)
    /\ transport' = [transport EXCEPT ![c] = "open"]
    /\ clients' = InsertAt(clients, pos, c)
    /\ clients_info' = DictPut(clients_info, c, Identity(c))
    /\ id_to_ws' = DictPut(id_to_ws, ClientId(c), c)
    /\ init_snap' = [init_snap EXCEPT ![c] = Ids(messages)]
    /\ step_sends' = {<<c, InitEv(clients_info'[c], messages, ValuesOf(clients_info'))>>}
    /\ pc' = [pc EXCEPT ![c] = "init"]
    /\ last' = NoLine
    /\ UNCHANGED <<messages, next_id, temp_tasks, task, local_mid, stack, sent,
                   posted, del_calls, mispruned, missed>>

\* a connection is accepted whose peer is gone before init is sent: send
\* raises ConnectionClosed and the finally block runs
ConnectLost(c) ==
    /\ pc[c] = "new"
    /\ \A d \in Conn : d < c => pc[d] # "new"
    /\ transport' = [transport EXCEPT ![c] = "closed"]
    /\ \E m \in {BroadcastClients(
                    [Machine(HTask(c)) EXCEPT
                        !.out = {<<c, InitEv(Identity(c), messages,
                                             ValuesOf(DictPut(clients_info, c, Identity(c))))>>}])} :
           /\ Commit(HTask(c), m)
           /\ AfterBroadcast(c, m, "bcast_fin", 0, temp_tasks, task)
    /\ last' = NoLine
    /\ UNCHANGED <<messages, next_id, init_snap, posted, del_calls>>

\* the send of init returned: broadcast_clients()
Announce(c) ==
    /\ pc[c] = "init"
    /\ \E m \in {BroadcastClients(Machine(HTask(c)))} :
           /\ Commit(HTask(c), m)
           /\ AfterBroadcast(c, m, "bcast_read", 0, temp_tasks, task)
    /\ last' = NoLine
    /\ UNCHANGED <<messages, next_id, transport, init_snap, posted, del_calls>>

\* the peer closes the connection, or the network drops it
Close(c) ==
    /\ transport[c] = "open"
    /\ transport' = [transport EXCEPT ![c] = "closed"]
    /\ last' = NoLine
    /\ step_sends' = {}
    /\ UNCHANGED <<clients, clients_info, id_to_ws, messages, next_id, temp_tasks,
                   task, pc, local_mid, stack, sent, init_snap, posted, del_calls,
                   mispruned, missed>>

\* `async for msg in ws` ends because the connection is closed
EndOfStream(c) ==
    /\ pc[c] = "read"
    /\ transport[c] = "closed"
    /\ Finally(c)
    /\ last' = NoLine
    /\ UNCHANGED <<messages, next_id, transport, init_snap, posted, del_calls>>

\* the gather awaited by the innermost broadcast() of a handler returns
ResumeHandler(c) ==
    /\ pc[c] \in {"bcast_read", "bcast_temp", "bcast_fin"}
    /\ \E m \in {Resume(Machine(HTask(c)))} :
           /\ Commit(HTask(c), m)
           /\ AfterBroadcast(c, m, pc[c], local_mid[c], temp_tasks, task)
    /\ last' = NoLine
    /\ UNCHANGED <<messages, next_id, transport, init_snap, posted, del_calls>>

(***************************************************************************)
(* The read loop: one inbound line, up to the next await that suspends.    *)
(***************************************************************************)
Sender(c) == DictGet(clients_info, c, NoIdentity)

\* `continue` with nothing done
Dropped ==
    /\ step_sends' = {}
    /\ UNCHANGED <<clients, clients_info, id_to_ws, messages, next_id, temp_tasks,
                   task, transport, pc, local_mid, stack, sent, init_snap, posted,
                   del_calls, mispruned, missed>>

\* the search loop of the /delete branch
DoDelete(c, target_id) ==
    LET i == FindIndex(messages, target_id)
    IN  IF i = 0 THEN Dropped
        ELSE \E m \in {Enter(Machine(HTask(c)), DelEv(target_id))} :
                 /\ messages' = RemoveAt(messages, i)
                 /\ del_calls' = [del_calls EXCEPT ![target_id] = @ + 1]
                 /\ Commit(HTask(c), m)
                 /\ AfterBroadcast(c, m, "bcast_read", 0, temp_tasks \ {target_id},
                                   Cancel(task, temp_tasks, target_id))
                 /\ UNCHANGED <<next_id, transport, init_snap, posted>>

\* mid = next_id; next_id += 1; messages.append(...); await broadcast(...)
DoPost(c, msg, kind, cont) ==
    \E m \in {Enter(Machine(HTask(c)), MsgEv(msg.id))} :
        /\ next_id <= MaxMsgs
        /\ messages' = Append(messages, msg)
        /\ next_id' = Bump(next_id)
        /\ posted' = Append(posted, [id |-> msg.id, by |-> c, kind |-> kind,
                                     to_id |-> msg.to_id])
        /\ Commit(HTask(c), m)
        /\ AfterBroadcast(c, m, cont, msg.id, temp_tasks, task)
        /\ UNCHANGED <<transport, init_snap, del_calls>>

\* the /to branch: the message is stored, then sent to send_to only
DoDirect(c, target_cid, text) ==
    LET mid == next_id
        send_to == SendTo(clients, id_to_ws, target_cid, c)
    IN  /\ next_id <= MaxMsgs
        /\ messages' = Append(messages, NewMessage(mid, text, None, Sender(c), target_cid))
        /\ next_id' = Bump(next_id)
        /\ posted' = Append(posted, [id |-> mid, by |-> c, kind |-> "to",
                                     to_id |-> target_cid])
        /\ sent' = CountSends(sent, send_to, MsgEv(mid))
        /\ step_sends' = {<<d, MsgEv(mid)>> : d \in Range(send_to)}
        /\ UNCHANGED <<clients, clients_info, id_to_ws, temp_tasks, task, transport,
                       pc, local_mid, stack, init_snap, del_calls, mispruned, missed>>

\* the /exit branch: ws.close(); the loop is left and EndOfStream runs the
\* finally block
DoExit(c) ==
    /\ transport' = [transport EXCEPT ![c] = "closed"]
    /\ step_sends' = {}
    /\ UNCHANGED <<clients, clients_info, id_to_ws, messages, next_id, temp_tasks,
                   task, pc, local_mid, stack, sent, init_snap, posted, del_calls,
                   mispruned, missed>>

\* the body of `async for msg in ws` for one line
Read(c, line) ==
    /\ pc[c] = "read"
    /\ transport[c] = "open"
    /\ last' = [by |-> c, line |-> line]
    /\ LET i == Parse(line)
       IN  CASE i.kind = "drop" -> Dropped
             [] i.kind = "delete_last" ->
                    IF messages = <<>> THEN Dropped
                    ELSE DoDelete(c, messages[Len(messages)].id)
             [] i.kind = "delete_id" -> DoDelete(c, i.id)
             [] i.kind = "reply" ->
                    DoPost(c, NewMessage(next_id, i.text, Some(i.num), Sender(c), None),
                           "reply", "bcast_read")
             [] i.kind = "temp" ->
                    DoPost(c, TimedMessage(next_id, i.text, Sender(c), i.num),
                           "temp", "bcast_temp")
             [] i.kind = "to" -> DoDirect(c, i.target, i.text)
             [] i.kind = "exit" -> DoExit(c)
             [] i.kind = "public" ->
                    DoPost(c, NewMessage(next_id, i.text, None, Sender(c), None),
                           "public", "bcast_read")

(***************************************************************************)
(* expire(): the task of a timed message.                                  *)
(***************************************************************************)
\* asyncio.sleep(delay) is over: the message is deleted when still present
Expire(mid) ==
    /\ task[mid] = "sleeping"
    /\ LET i == FindIndex(messages, mid)
       IN  IF StillPresent(messages, mid)
           THEN \E m \in {Enter(Machine(XTask(mid)), DelEv(mid))} :
                    /\ messages' = RemoveAt(messages, i)
                    /\ temp_tasks' = temp_tasks \ {mid}
                    /\ del_calls' = [del_calls EXCEPT ![mid] = @ + 1]
                    /\ Commit(XTask(mid), m)
                    /\ task' = [task EXCEPT ![mid] =
                                    IF Suspended(m.stk) THEN "bcast" ELSE "done"]
           ELSE /\ task' = [task EXCEPT ![mid] = "done"]
                /\ step_sends' = {}
                /\ UNCHANGED <<clients, clients_info, id_to_ws, messages, temp_tasks,
                               stack, sent, del_calls, mispruned, missed>>
    /\ last' = NoLine
    /\ UNCHANGED <<next_id, transport, pc, local_mid, init_snap, posted>>

\* the gather awaited by the innermost broadcast() of an expire task returns
ResumeExpire(mid) ==
    /\ task[mid] = "bcast"
    /\ \E m \in {Resume(Machine(XTask(mid)))} :
           /\ Commit(XTask(mid), m)
           /\ task' = [task EXCEPT ![mid] = IF Suspended(m.stk) THEN "bcast" ELSE "done"]
    /\ last' = NoLine
    /\ UNCHANGED <<messages, next_id, temp_tasks, transport, pc, local_mid,
                   init_snap, posted, del_calls>>

(***************************************************************************)
(* The lines clients send, spelled out character by character.             *)
(***************************************************************************)
DigitChars == <<"0", "1", "2", "3", "4", "5", "6", "7", "8", "9">>
\* the decimal text of a natural number
RECURSIVE NumText(_)
NumText(n) ==
    IF n < 10 THEN <<DigitChars[n + 1]>>
    ELSE NumText(n \div 10) \o <<DigitChars[(n % 10) + 1]>>

W_delete == <<"/", "d", "e", "l", "e", "t", "e">>
W_reply == <<"/", "r", "e", "p", "l", "y">>
W_temp == <<"/", "t", "e", "m", "p">>
W_to == <<"/", "t", "o">>
W_xyz == <<"/", "x", "y", "z">>
SP == <<" ">>
T_a == <<"a">>
T_x == <<"x">>

L_hi == <<"h", "i">>
L_exit == <<"/", "e", "x", "i", "t">>
L_delete_last == W_delete \o SP \o <<"l", "a", "s", "t">>
L_delete(n) == W_delete \o SP \o NumText(n)
L_reply(n) == W_reply \o SP \o NumText(n) \o SP \o T_a
L_temp(n) == W_temp \o SP \o NumText(n) \o SP \o T_a
L_to(cid) == W_to \o SP \o cid \o SP \o T_a

\* an id that is never issued within the bounds
NeverIssued == MaxMsgs + 7

\* command names alone: no argument and no space after the name
BareLines == {W_delete, W_reply, W_temp, W_to, W_xyz}

\* a command prefix with its space, then an argument list that does not parse
MalformedLines ==
    {W_delete \o SP, W_delete \o SP \o T_x,
     W_reply \o SP, W_reply \o SP \o NumText(1), W_reply \o SP \o T_x \o SP \o T_a,
     W_temp \o SP, W_temp \o SP \o NumText(1), W_temp \o SP \o T_x \o SP \o T_a,
     W_to \o SP, W_to \o SP \o ClientId(1)}

(***************************************************************************)
(* The specifications.  Every task of the event loop may take its next     *)
(* step at any time; clients connect, send lines and go away at any time.  *)
(***************************************************************************)
Lifecycle ==
    \/ \E c \in Conn : \E pos \in 1..NumConns : Connect(c, pos)
    \/ \E c \in Conn : ConnectLost(c)
    \/ \E c \in Conn : Announce(c)
    \/ \E c \in Conn : Close(c)
    \/ \E c \in Conn : EndOfStream(c)
    \/ \E c \in Conn : ResumeHandler(c)

Reading(readers, lines) == \E c \in readers : \E line \in lines : Read(c, line)

Timers ==
    \/ \E mid \in MsgId : Expire(mid)
    \/ \E mid \in MsgId : ResumeExpire(mid)

\* posts, timed posts, deletes and expiries
MainLines == {L_temp(1), L_delete_last, L_delete(1)}

Next == Lifecycle \/ Reading(Conn, MainLines) \/ Timers

Spec == Init /\ [][Next]_vars

\* direct messages
DirectLines == {L_to(ClientId(c)) : c \in Conn} \cup {L_to(UnknownId), L_hi}

NextDirect == Lifecycle \/ Reading(Conn, DirectLines)

SpecDirect == Init /\ [][NextDirect]_vars

\* every kind of line, well formed or not, from the first connection; the
\* others listen, and connections end by /exit only
ParseLines ==
    {L_exit, L_temp(1), L_to(ClientId(1)),
     L_delete_last, L_delete(1), L_delete(NeverIssued)}
        \cup BareLines \cup MalformedLines

NextParse ==
    \/ \E c \in Conn : \E pos \in 1..NumConns : Connect(c, pos)
    \/ \E c \in Conn : Announce(c)
    \/ \E c \in Conn : EndOfStream(c)
    \/ \E c \in Conn : ResumeHandler(c)
    \/ Reading({1}, ParseLines)
    \/ Timers

SpecParse == Init /\ [][NextParse]_vars

\* posts of every kind, deletes and expiries, from every connection
IdLines == {L_hi, L_reply(1), L_temp(1), L_to(UnknownId), L_delete_last, L_exit}

NextIds ==
    \/ \E c \in Conn : \E pos \in 1..NumConns : Connect(c, pos)
    \/ \E c \in Conn : Announce(c)
    \/ \E c \in Conn : EndOfStream(c)
    \/ \E c \in Conn : ResumeHandler(c)
    \/ Reading(Conn, IdLines)
    \/ Timers

SpecIds == Init /\ [][NextIds]_vars

\* timed posts and manual deletes, under the scheduling of the event loop:
\* a task that can run is run, a send completes or fails, a sleep ends.
\* Clients are not obliged to connect, to send or to close.
LiveLines == {L_temp(1), L_delete(1)}

NextLive ==
    \/ Lifecycle
    \/ Reading(Conn, LiveLines) /\ next_id' <= LiveMsgs + 1
    \/ Timers

Fairness ==
    /\ \A c \in Conn :
          /\ WF_vars(Announce(c))
          /\ WF_vars(ResumeHandler(c))
          /\ WF_vars(EndOfStream(c))
    /\ \A mid \in MsgId :
          /\ WF_vars(Expire(mid))
          /\ WF_vars(ResumeExpire(mid))

SpecLive == Init /\ [][NextLive]_vars /\ Fairness

\* replies to a message that is present, deleted or never issued, and
\* deletes of the message replied to
ReplyLines == {L_hi, L_reply(1), L_reply(NeverIssued), L_delete(1)}

NextReply ==
    \/ \E c \in Conn : \E pos \in 1..NumConns : Connect(c, pos)
    \/ \E c \in Conn : Announce(c)
    \/ \E c \in Conn : ResumeHandler(c)
    \/ Reading(Conn, ReplyLines)

SpecReply == Init /\ [][NextReply]_vars

\* connections come and go in every way (closure, loss before init, /exit)
\* while public messages are posted, under the scheduling of the event loop
RegistryLines == {L_hi, L_exit}

NextRegistry ==
    \/ Lifecycle
    \/ Reading(Conn, RegistryLines)

SpecRegistry == Init /\ [][NextRegistry]_vars /\ Fairness

(***************************************************************************)
(* Properties.                                                             *)
(***************************************************************************)
PostedIds == {posted[i].id : i \in DOMAIN posted}
PostOf(mid) == posted[CHOOSE i \in DOMAIN posted : posted[i].id = mid]

\* connection c was handed message mid, in a message event or in its init
Received(c, mid) == sent[c][MsgEv(mid)] > 0 \/ mid \in init_snap[c]

\* C1: a message with to_id set reaches, in a message event or in the
\* messages of an init event, only the connection that sent it and the
\* connection registered under to_id.
C1_DirectOnlyToPair ==
    \A c \in Conn : \A i \in DOMAIN posted :
        (posted[i].to_id # None /\ Received(c, posted[i].id))
            => (c = posted[i].by \/ ClientId(c) = posted[i].to_id)

\* C2: broadcast() prunes a connection only if the send to that very
\* connection failed in this broadcast, and prunes every connection whose
\* send failed.
C2_PruneExactlyFailed == mispruned = {} /\ missed = {}

\* C4: every key of temp_tasks is the id of a message still in the store.
C4_NoDanglingTimer == temp_tasks \subseteq Ids(messages)

\* C3: over manual deletes and the expiry task of a message, at most one
\* delete event is broadcast for its id, exactly one if the message was ever
\* removed from the store, and no connection is sent it twice.
C3_OneDeletePerId ==
    \A mid \in MsgId :
        /\ del_calls[mid] <= 1
        /\ (mid \in PostedIds /\ mid \notin Ids(messages)) <=> del_calls[mid] = 1
        /\ \A c \in Conn : sent[c][DelEv(mid)] <= 1

\* a timed message expired, and a manual delete of its id came afterwards
C3_Witness ==
    \E mid \in MsgId :
        /\ task[mid] = "done"
        /\ del_calls[mid] = 1
        /\ last.line = L_delete(mid)
        /\ \E c \in Conn : sent[c][DelEv(mid)] = 1

\* C6: the ids assigned are 1, 2, 3, ... in the order of assignment, whatever
\* was deleted in between, and next_id is the first id not assigned yet.
C6_IdsIncrease ==
    /\ \A i \in DOMAIN posted : posted[i].id = i
    /\ next_id = Len(posted) + 1

\* a message is appended after an earlier one was deleted
C6_Witness ==
    /\ Len(posted) = 2
    /\ Ids(messages) = {2}
    /\ del_calls[1] = 1
    /\ last.line \in {L_hi, L_reply(1), L_temp(1), L_to(UnknownId)}

\* the sends of message events among `sends`
MessageSends(sends) == {x \in sends : x[2][1] = "message"}

\* C7: a /delete of an id that is not in the store, and /delete last on an
\* empty store, change neither the store, next_id, the timers nor the
\* registry, and send nothing.
C7_DeleteMissingNoop ==
    [][LET missing ==
              \/ \E n \in MsgId \cup {NeverIssued} :
                    last'.line = L_delete(n) /\ n \notin Ids(messages)
              \/ last'.line = L_delete_last /\ messages = <<>>
       IN  (last'.by # 0 /\ missing) =>
              /\ UNCHANGED <<messages, next_id, temp_tasks, task, clients,
                             clients_info, id_to_ws, sent, del_calls, stack>>
              /\ step_sends' = {}]_vars

\* message 1 was deleted before, and /delete 1 is read again
C7_Witness ==
    /\ last.line = L_delete(1)
    /\ del_calls[1] = 1
    /\ 1 \notin Ids(messages)
    /\ clients # <<>>
    /\ step_sends = {}

\* C8 as stated: a line that starts with a command name but is no
\* well-formed command appends nothing and causes no message event.
C8_SlashLineDropped ==
    [][(last'.by # 0 /\ last'.line \in BareLines \cup MalformedLines) =>
          /\ messages' = messages
          /\ MessageSends(step_sends') = {}]_vars

\* C8 amended: a line with a command prefix and its space that does not
\* parse is dropped; a bare command name (no space after it) and an unknown
\* /xyz are posted as public messages whose text is the whole line.
C8_PrefixDecides ==
    [][last'.by # 0 =>
          /\ last'.line \in MalformedLines =>
                /\ messages' = messages
                /\ MessageSends(step_sends') = {}
          /\ last'.line \in BareLines =>
                /\ Len(messages') = Len(messages) + 1
                /\ LET m == messages'[Len(messages')]
                   IN  /\ m.id = next_id
                       /\ m.text = last'.line
                       /\ m.to_id = None
                       /\ m.reply_to = None
                /\ MessageSends(step_sends') =
                       {<<c, MsgEv(next_id)>> : c \in Range(clients)}]_vars

\* the bare line /reply was posted and sent as a message event
C8_Witness ==
    /\ last.line = W_reply
    /\ messages # <<>>
    /\ messages[Len(messages)].text = W_reply
    /\ MessageSends(step_sends) # {}

\* C9: a malformed command with its prefix present changes nothing, sends
\* nothing, and leaves its handler reading.
C9_MalformedNoEffect ==
    [][(last'.by # 0 /\ last'.line \in MalformedLines) =>
          /\ UNCHANGED <<messages, next_id, temp_tasks, task, clients,
                         clients_info, id_to_ws, sent, del_calls, stack, transport>>
          /\ step_sends' = {}
          /\ pc'[last'.by] = "read"]_vars

\* "/reply 1" (no text) was read while the store held a message and another
\* connection was listening
C9_Witness ==
    /\ last.line = W_reply \o SP \o NumText(1)
    /\ messages # <<>>
    /\ Len(clients) = 2
    /\ pc[last.by] = "read"

\* the connections registered under client id t
RegisteredAs(t) ==
    {d \in Range(clients) : d \in DOMAIN clients_info /\ clients_info[d].id = t}

\* C10: a well-formed /to appends the message with to_id = clientId and sends
\* its message event to the sender and to the connection registered under
\* clientId, when there is one, and sends nothing else.
C10_DirectAudience ==
    [][\A t \in {ClientId(c) : c \in Conn} \cup {UnknownId} :
          (last'.by # 0 /\ last'.line = L_to(t)) =>
              /\ Len(messages') = Len(messages) + 1
              /\ messages'[Len(messages')].id = next_id
              /\ messages'[Len(messages')].to_id = t
              /\ messages'[Len(messages')].text = T_a
              /\ step_sends' =
                    {<<d, MsgEv(next_id)>> : d \in {last'.by} \cup RegisteredAs(t)}]_vars

\* a direct message to a connection that is gone went to the sender alone
C10_Witness ==
    /\ last.by = 1
    /\ last.line = L_to(ClientId(2))
    /\ pc[2] = "done"
    /\ step_sends = {<<1, MsgEv(next_id - 1)>>}

\* C5: a timed message is in the store right after it is appended, and is
\* eventually out of the store with a delete event broadcast for its id,
\* whether or not its poster is still connected.
C5_TimedExpires ==
    /\ [][posted' # posted =>
             posted'[Len(posted')].id \in Ids(messages')]_vars
    /\ \A mid \in MsgId :
          (mid \in PostedIds /\ PostOf(mid).kind = "temp")
              ~> (mid \notin Ids(messages) /\ del_calls[mid] >= 1)

\* the expire task of a timed message removed it and is broadcasting the
\* delete, after the handler that posted it ended
C5_Witness ==
    \E mid \in MsgId :
        /\ mid \in PostedIds
        /\ task[mid] = "bcast"
        /\ pc[PostOf(mid).by] = "done"
        /\ mid \notin Ids(messages)
        /\ del_calls[mid] = 1

\* C11: at every await point `clients` holds exactly the keys of
\* clients_info, and id_to_ws is exactly the inverse of connection -> id.
C11_RegistryConsistent ==
    /\ Range(clients) = DOMAIN clients_info
    /\ Len(clients) = Cardinality(Range(clients))
    /\ DOMAIN id_to_ws = {clients_info[c].id : c \in DOMAIN clients_info}
    /\ \A c \in DOMAIN clients_info : id_to_ws[clients_info[c].id] = c

\* a connection left by /exit after broadcast() had pruned the other one,
\* which is still being served
C11_Witness ==
    \E c, d \in Conn :
        /\ c # d
        /\ last = [by |-> c, line |-> L_exit]
        /\ c \in Range(clients)
        /\ d \notin Range(clients)
        /\ pc[d] \in {"read", "bcast_read"}

\* the events of tag `tag` among `sends`
EventsOf(sends, tag) == {x \in sends : x[2][1] = tag}

\* C12: the list of every clients event is exactly the roster of the
\* registry at the instant the event is built (nothing runs between the
\* build and the end of the step), and every id of the list resolves through
\* id_to_ws to a connection that is in `clients`.
C12_RosterIsLive ==
    [][\A x \in EventsOf(step_sends', "clients") :
          LET lst == x[2][2]
          IN  /\ Range(lst) = {Identity(c) : c \in Range(clients')}
              /\ Len(lst) = Len(clients')
              /\ \A i \in DOMAIN lst :
                     /\ lst[i].id \in DOMAIN id_to_ws'
                     /\ id_to_ws'[lst[i].id] \in Range(clients')]_vars

\* broadcast() pruned a closed connection and sent the roster of the one
\* that remains
C12_Witness ==
    \E c, d \in Conn :
        /\ c # d
        /\ transport[d] = "closed"
        /\ pc[d] \in {"read", "bcast_read"}
        /\ clients = <<c>>
        /\ step_sends = {<<c, ClientsEv(<<Identity(c)>>)>>}

\* connection c is in none of clients, clients_info and id_to_ws
Absent(c) ==
    /\ c \notin Range(clients)
    /\ c \notin DOMAIN clients_info
    /\ \A k \in DOMAIN id_to_ws : id_to_ws[k] # c

\* the step in which the read loop of c ends and its finally block runs
LoopEnds(c) ==
    /\ pc[c] \notin {"bcast_fin", "done"}
    /\ pc'[c] \in {"bcast_fin", "done"}

\* C13: when the read loop of a connection ends (closure, ConnectionClosed
\* raised by a send, /exit) the connection is out of the three registry
\* structures and the roster without it is sent to the connections that
\* remain; the other handlers stay where they are; the registry is left
\* untouched when broadcast() had pruned the connection already; a closed
\* transport always leads to this cleanup and to the end of the handler.
C13_CleanupOnEnd ==
    /\ [][\A c \in Conn : LoopEnds(c) =>
              /\ Absent(c)'
              /\ EventsOf(step_sends', "clients") =
                     {<<d, ClientsEv(ValuesOf(clients_info'))>> : d \in Range(clients')}
              /\ \A i \in DOMAIN ValuesOf(clients_info') :
                     ValuesOf(clients_info')[i] # Identity(c)
              /\ \A d \in Conn \ {c} : pc'[d] = pc[d] /\ transport'[d] = transport[d]
              /\ c \notin Range(clients) =>
                     UNCHANGED <<clients, clients_info, id_to_ws>>]_vars
    /\ [][\A c \in Conn : (pc[c] = "done" /\ Absent(c)) => Absent(c)']_vars
    /\ \A c \in Conn :
          (transport[c] = "closed") ~> (pc[c] = "done" /\ Absent(c))

\* the handler of a connection that left by /exit ran its finally block:
\* the roster of the one that remains was sent to it, and it goes on reading
C13_Witness ==
    \E c, d \in Conn :
        /\ c # d
        /\ transport[c] = "closed"
        /\ pc[c] = "bcast_fin"
        /\ Absent(c)
        /\ pc[d] = "read"
        /\ transport[d] = "open"
        /\ step_sends = {<<d, ClientsEv(<<Identity(d)>>)>>}

\* C14: a connection that is accepted is sent an init event with its own
\* identity, the store as it is and a roster that contains it; when the send
\* of init has returned, a clients event whose roster contains it is sent to
\* every registered connection and to the new connection itself.
C14_InitThenRoster ==
    [][\A c \in Conn :
          /\ (pc[c] = "new" /\ pc'[c] = "init") =>
                \E x \in EventsOf(step_sends', "init") :
                    /\ x[1] = c
                    /\ x[2][2].you = Identity(c)
                    /\ x[2][2].messages = messages
                    /\ Identity(c) \in Range(x[2][2].clients)
          /\ (pc[c] = "init" /\ pc'[c] # "init" /\ transport[c] = "open") =>
                \E lst \in {ValuesOf(clients_info')} :
                    /\ Identity(c) \in Range(lst)
                    /\ EventsOf(step_sends', "clients") =
                           {<<d, ClientsEv(lst)>> : d \in Range(clients') \cup {c}}]_vars

\* C15: a well-formed /reply n appends a message with reply_to = n and
\* broadcasts it, whether n is in the store, was deleted or was never issued;
\* a delete of message n leaves every other message, replies to n included,
\* in the store as it was.
C15_ReplyUnvalidated ==
    /\ [][\A n \in MsgId \cup {NeverIssued} :
              (last'.by # 0 /\ last'.line = L_reply(n)) =>
                  /\ Len(messages') = Len(messages) + 1
                  /\ SubSeq(messages', 1, Len(messages)) = messages
                  /\ LET m == messages'[Len(messages')]
                     IN  /\ m.id = next_id
                         /\ m.reply_to = Some(n)
                         /\ m.text = T_a
                         /\ m.to_id = None
                  /\ MessageSends(step_sends') =
                         {<<d, MsgEv(next_id)>> : d \in Range(clients)}]_vars
    /\ [][\A n \in MsgId :
              (last'.by # 0 /\ last'.line = L_delete(n)) =>
                  \A i \in DOMAIN messages :
                      messages[i].id # n =>
                          \E j \in DOMAIN messages' : messages'[j] = messages[i]]_vars

\* message 1 was replied to and then deleted: the reply is still in the
\* store and still refers to 1
C15_Witness ==
    /\ last.line = L_delete(1)
    /\ del_calls[1] = 1
    /\ Len(messages) = 1
    /\ messages[1].id = 2
    /\ messages[1].reply_to = Some(1)
    /\ sent[1][MsgEv(2)] = 1

\* the ids of msgs are strictly increasing in list order
IdOrdered(msgs) ==
    \A i, j \in DOMAIN msgs : i < j => msgs[i].id < msgs[j].id

\* C16: the ids of the store are strictly increasing in list order (hence
\* pairwise distinct) and smaller than next_id, whatever the interleaving of
\* appends, deletes and expiries; the messages of an init event are in id
\* order; /delete last removes the message of greatest id.
C16_StoreOrdered ==
    /\ [](/\ IdOrdered(messages)
          /\ \A i \in DOMAIN messages : messages[i].id < next_id)
    /\ [][\A x \in EventsOf(step_sends', "init") : IdOrdered(x[2][2].messages)]_vars
    /\ [][(last'.by # 0 /\ last'.line = L_delete_last /\ messages # <<>>) =>
              /\ Len(messages') = Len(messages) - 1
              /\ \A k \in Ids(messages) :
                     k \in Ids(messages') <=> \E n \in Ids(messages) : n > k]_vars

\* two connections appended one message each and /delete last removed the
\* later one
C16_Witness ==
    /\ last.line = L_delete_last
    /\ Len(posted) = 2
    /\ posted[1].by # posted[2].by
    /\ Ids(messages) = {1}
    /\ del_calls[2] = 1

InBroadcast(c) == pc[c] \in {"bcast_read", "bcast_temp", "bcast_fin"}

\* C17: the nesting of broadcast() is bounded, and a connection whose send
\* failed in a broadcast is sent nothing by the roster broadcasts nested in
\* it.
C17_NoResendToFailed ==
    \A t \in TaskIds :
        /\ Len(stack[t]) <= NumConns
        /\ \A i, j \in DOMAIN stack[t] :
               i < j => \A c \in Range(stack[t][j].tgt) : ~OwnSendFailed(stack[t][i], c)

\* What holds of C17: every call of broadcast() returns; at most one roster
\* broadcast is nested per connection there is; a connection that a step
\* removes from the registry is sent nothing by that step.
C17_RecursionEnds ==
    /\ [][\A t \in TaskIds : Len(stack'[t]) <= NumConns]_vars
    /\ [][\A c \in Range(clients) \ Range(clients') :
              \A x \in step_sends' : x[1] # c]_vars
    /\ \A c \in Conn : InBroadcast(c) ~> ~InBroadcast(c)

\* both connections are closed; the first was pruned and the roster went
\* to the second, whose send had failed in the outer broadcast and fails
\* again
C17_Witness ==
    \E c, d \in Conn : \E t \in TaskIds :
        /\ c # d
        /\ Len(stack[t]) = 2
        /\ OwnSendFailed(stack[t][1], c)
        /\ OwnSendFailed(stack[t][1], d)
        /\ stack[t][2].tgt = <<d>>
        /\ stack[t][2].res = <<TRUE>>
        /\ clients = <<d>>

\* C18: every message of the store carries the identity its sender was
\* given at registration, never None.
C18_SenderRegistered ==
    \A i \in DOMAIN messages :
        /\ messages[i].from_id # None
        /\ messages[i].from_name # None
        /\ messages[i].from_id = ClientId(PostOf(messages[i].id).by)
        /\ messages[i].from_name = NameOf(PostOf(messages[i].id).by)

\* C19 as stated: every public message ever appended was handed to every
\* connection that is registered, in its init event or in a message event.
C19_NoPublicMissed ==
    \A c \in Range(clients) : \A i \in DOMAIN posted :
        posted[i].to_id = None => Received(c, posted[i].id)

\* C19 amended: the init event of a joiner holds the store as it is when the
\* joiner registers; a public message appended later is sent as a message
\* event to every connection registered at that moment; so every public
\* message of the store was handed to every registered connection.  (A
\* message deleted before the joiner registered reaches it in neither way.)
C19_SnapshotOrEvent ==
    /\ [][\A c \in Conn : (pc[c] = "new" /\ pc'[c] = "init") =>
              /\ init_snap'[c] = Ids(messages)
              /\ \E x \in EventsOf(step_sends', "init") :
                     x[1] = c /\ x[2][2].messages = messages]_vars
    /\ [][(posted' # posted /\ posted'[Len(posted')].to_id = None) =>
              \A c \in Range(clients) :
                  <<c, MsgEv(posted'[Len(posted')].id)>> \in step_sends']_vars
    /\ [](\A c \in Range(clients) : \A i \in DOMAIN messages :
              messages[i].to_id = None => Received(c, messages[i].id))

\* the second connection registers while the broadcast of message 1 to the
\* first is in flight: it was not sent the message event and finds the
\* message in its init event
C19_Witness ==
    /\ pc[1] = "bcast_read"
    /\ next_id = 2
    /\ stack[HTask(1)][1].tgt = <<1>>
    /\ pc[2] = "init"
    /\ 2 \in Range(clients)
    /\ init_snap[2] = {1}
    /\ sent[2][MsgEv(1)] = 0

\* C20: no connection is sent the message event of one message id more
\* than once.
C20_MessageOnce ==
    \A c \in Conn : \A mid \in MsgId : sent[c][MsgEv(mid)] <= 1

====
